---- MODULE Spec2Model ----
(***************************************************************************)
(* Model of blog-check-template.py: a linear audit of the DNS and HTTPS    *)
(* wiring of a custom domain.  main() runs self_test, nameserver_sanity,   *)
(* dns_audit, root_a_record_check, redirect_check, https_status and the    *)
(* optional advanced_diagnostics and debug_info, then exits with the       *)
(* accumulated exit_code.                                                  *)
(*                                                                         *)
(* Text.  A Python str is a finite sequence of lexemes.  The lexemes " "   *)
(* and "\n" are the whitespace; every other lexeme is an indivisible piece *)
(* of non-blank text ("301", "Location:", "example.com", ...).  The empty  *)
(* str is << >>.  str.strip, str.splitlines, str.split and str.startswith  *)
(* are computed on that representation.                                    *)
(*                                                                         *)
(* External tools.  Every subprocess call site draws the tool's standard   *)
(* output from a finite set of raw outputs; << >> also stands for a tool   *)
(* that failed, since run() turns every exception into "".  ping and curl  *)
(* are taken to be installed (they are listed as required dependencies);   *)
(* only the absence of dig is a case the program itself tests for.         *)
(*                                                                         *)
(* Console.  Every print_status / print_warning call site is a key of      *)
(* `out`, holding what that site printed: "-" (nothing), "ok", "fail",     *)
(* "warn" or "info".  `stages` lists the stage functions entered so far.   *)
(***************************************************************************)
EXTENDS Integers, Sequences, FiniteSets, TLC

VARIABLES
    pc,            \* position of main(): the stage that runs next
    args,          \* parsed command line: [advanced, debug]
    exit_code,     \* global exit_code
    last_headers,  \* global last_headers
    term,          \* "running", "exit" (sys.exit) or "traceback" (uncaught exception)
    exit_status,   \* status the process ended with (meaningful once term # "running")
    out,           \* what each print call site printed
    stages,        \* stage functions entered, in order
    dig_found,     \* self_test: result of shutil.which('dig'): "-", "yes", "no"
    ip,            \* self_test: local ip
    ping_ok,       \* self_test: result of ping(ip): "-", "ok", "fail"
    status,        \* self_test: local status
    ns_list,       \* main: local ns_list
    host,          \* dns_audit: index of the loop over the three hosts
    cname,         \* dns_audit: local cname of the current iteration
    a,             \* dns_audit: local a of the current iteration
    pub_ans,       \* dns_audit: dig(fqdn,'CNAME',r) for r in RESOLVERS
    auth_ans,      \* dns_audit: dig(fqdn,'CNAME',ns) for ns in ns_list
    pub,           \* dns_audit: local pub
    auth,          \* dns_audit: local auth
    a_lookups,     \* hosts for which dig(fqdn,'A') was called
    root_ips,      \* root_a_record_check: local root_ips (as the set of its lines)
    mode,          \* main: local mode
    hdr_fetches,   \* number of curl_headers calls made
    dump           \* header lines printed by debug_info

vars == << pc, args, exit_code, last_headers, term, exit_status, out, stages,
           dig_found, ip, ping_ok, status, ns_list, host, cname, a, pub_ans,
           auth_ans, pub, auth, a_lookups, root_ips, mode, hdr_fetches, dump >>

----------------------------------------------------------------------------
(* Configuration *)

CNAME_1_HOST == "abcd1234"
CNAME_1_TARGET == <<"gv-xxxxxxx.dv.googlehosted.com">>
WWW_TARGET == <<"ghs.google.com">>
BLOG_SUBDOMAIN == "blog"
BLOGSPOT_DOMAIN == <<"example.blogspot.com">>
CUSTOM_DOMAIN == <<"example.com">>

RESOLVERS == <<"8.8.8.8", "1.1.1.1", "9.9.9.9">>

BLOGGER_IPS == {"216.239.32.21", "216.239.34.21", "216.239.36.21", "216.239.38.21"}
FORWARD_IPS == {"198.49.23.144", "198.49.23.145", "198.185.159.144", "198.185.159.145"}

\* The loop list of dns_audit: (host, expected) pairs.
Hosts == << [host |-> "www", expected |-> WWW_TARGET],
            [host |-> BLOG_SUBDOMAIN, expected |-> BLOGSPOT_DOMAIN],
            [host |-> CNAME_1_HOST, expected |-> CNAME_1_TARGET] >>

\* f'https://www.{CUSTOM_DOMAIN}/'
WwwUrl == <<"https://www.">> \o CUSTOM_DOMAIN \o <<"/">>

----------------------------------------------------------------------------
(* Python str operations *)

IsSpace(c) == c \in {" ", "\n"}

RECURSIVE LStrip(_)
LStrip(s) == IF s = << >> THEN s
             ELSE IF IsSpace(Head(s)) THEN LStrip(Tail(s)) ELSE s

RECURSIVE RStrip(_)
RStrip(s) == IF s = << >> THEN s
             ELSE IF IsSpace(s[Len(s)]) THEN RStrip(SubSeq(s, 1, Len(s) - 1)) ELSE s

\* str.strip()
strip(s) == RStrip(LStrip(s))

\* Index of the first lexeme of s in set S, or 0.
RECURSIVE FindFrom(_, _, _)
FindFrom(s, S, k) == IF k > Len(s) THEN 0
                     ELSE IF s[k] \in S THEN k ELSE FindFrom(s, S, k + 1)

\* str.splitlines(): "" gives [], a final newline opens no further line.
RECURSIVE splitlines(_)
splitlines(s) ==
    IF s = << >> THEN << >>
    ELSE LET k == FindFrom(s, {"\n"}, 1)
         IN  IF k = 0 THEN << s >>
             ELSE << SubSeq(s, 1, k - 1) >> \o splitlines(SubSeq(s, k + 1, Len(s)))

\* str.split(): the maximal runs of non-blank text.
RECURSIVE split(_)
split(s) ==
    LET t == LStrip(s)
        k == FindFrom(t, {" ", "\n"}, 1)
    IN  IF t = << >> THEN << >>
        ELSE IF k = 0 THEN << t >>
        ELSE << SubSeq(t, 1, k - 1) >> \o split(SubSeq(t, k, Len(t)))

\* str.startswith(p)
startswith(s, p) == Len(s) >= Len(p) /\ SubSeq(s, 1, Len(p)) = p

\* re.search(fr"{re.escape(CUSTOM_DOMAIN)}$", n)
EndsWithDomain(n) ==
    Len(n) >= Len(CUSTOM_DOMAIN)
    /\ SubSeq(n, Len(n) - Len(CUSTOM_DOMAIN) + 1, Len(n)) = CUSTOM_DOMAIN

\* x | flag, for the bool that print_status returns
BitOr(x, flag) == IF flag THEN x + 1 - (x % 2) ELSE x

\* print_status(ok, msg): what is printed, and the returned `not ok`
Printed(ok) == IF ok THEN "ok" ELSE "fail"
print_status(ok) == ~ok

----------------------------------------------------------------------------
(* Tool wrappers; `o` is the standard output of the subprocess, << >> when *)
(* it raised.                                                              *)

run(o) == strip(o)
dig(o) == splitlines(run(o))
curl_status(o) == run(o)
curl_headers(o) == splitlines(run(o))

\* (lines or [''])[0]
FirstOrEmpty(lines) == IF lines = << >> THEN << >> ELSE lines[1]

----------------------------------------------------------------------------
(* Outputs the external tools may produce *)

MaxNS == 2

SeqUpTo(S, n) == UNION { [1..k -> S] : k \in 0..n }

\* Each line followed by a newline, as a tool prints them.
RECURSIVE JoinLines(_)
JoinLines(ls) == IF ls = << >> THEN << >>
                 ELSE Head(ls) \o <<"\n">> \o JoinLines(Tail(ls))

\* dig +short www.google.com
RawTestDns == { << >>,
                <<"142.250.1.1", "\n">>,
                <<"142.250.1.1", "\n", "142.250.1.2", "\n">> }

\* curl -s -o /dev/null -w '%{http_code}' <url>
RawStatus == { << >>, <<"200">>, <<"301">>, <<"404">> }

\* dig +short -t NS example.com
\* up to MaxNS names, the last of which may be a name under the domain itself
GlueName == <<"ns1.", "example.com">>
HostedName == <<"ns1.host.net.">>
RawNs == { JoinLines(l) : l \in { m \in SeqUpTo({GlueName, HostedName}, MaxNS) :
                                     \A k \in 1..(Len(m) - 1) : m[k] = HostedName } }

\* dig +short -t CNAME <fqdn> [@resolver], for a host whose configured target
\* is `expected`
OtherTarget == <<"parked.example.net">>
RawCname(expected) ==
    { << >>, <<"\n">>, JoinLines(<<expected>>), JoinLines(<<OtherTarget>>),
      JoinLines(<<OtherTarget, expected>>) }
RawResolverCname(expected) ==
    { << >>, JoinLines(<<expected>>), JoinLines(<<OtherTarget>>) }

\* dig +short -t A <fqdn>
RawA == { << >>, <<"\n">>, <<"203.0.113.7", "\n">> }

\* dig +short example.com, as the set of the lines answered
OtherIp == "203.0.113.7"
RootAnswers == SUBSET (BLOGGER_IPS \cup FORWARD_IPS \cup {OtherIp})

\* curl -sI --max-time 5 https://example.com
MaxHdr == 2
HeaderLines ==
    { <<"HTTP/1.1", " ", "301", " ", "Moved", " ", "Permanently">>,
      <<"HTTP/1.1", " ", "200", " ", "OK">>,
      <<"HTTP/1.1">>,
      <<"Location:", " ">> \o WwwUrl,
      <<"Location:", " ", "https://www.">> \o CUSTOM_DOMAIN,
      <<"Location:", " ", "http://www.">> \o CUSTOM_DOMAIN \o <<"/">>,
      <<"Location:", " ">> \o WwwUrl \o <<" ", "x">>,
      <<"Location:">> }
RawHeaders == { JoinLines(l) : l \in SeqUpTo(HeaderLines, MaxHdr) }

Sites == { "dig_missing", "dns_resolves", "ping", "https_test", "passed", "ns",
           "host1", "host2", "host3", "verif_a", "root", "root_fwd",
           "redirect", "https", "http", "debug" }

HostSite(k) == <<"host1", "host2", "host3">>[k]

AllArgs == [advanced : BOOLEAN, debug : BOOLEAN]

----------------------------------------------------------------------------
(* State after argument parsing, before self_test() *)

Init ==
    /\ pc = "self_test"
    /\ args \in AllArgs
    /\ exit_code = 0
    /\ last_headers = << >>
    /\ term = "running"
    /\ exit_status = 0
    /\ out = [s \in Sites |-> "-"]
    /\ stages = << >>
    /\ dig_found = "-"
    /\ ip = << >>
    /\ ping_ok = "-"
    /\ status = << >>
    /\ ns_list = << >>
    /\ host = 0
    /\ cname = << >>
    /\ a = << >>
    /\ pub_ans = << >>
    /\ auth_ans = << >>
    /\ pub = 0
    /\ auth = 0
    /\ a_lookups = {}
    /\ root_ips = {}
    /\ mode = ""
    /\ hdr_fetches = 0
    /\ dump = << >>

\* sys.exit(code)
SysExit(code) ==
    /\ term' = "exit"
    /\ exit_status' = code
    /\ pc' = "done"

\* An uncaught exception: traceback, interpreter exit status 1.
Traceback ==
    /\ term' = "traceback"
    /\ exit_status' = 1
    /\ pc' = "done"

Continue(next) ==
    /\ pc' = next
    /\ UNCHANGED << term, exit_status >>

----------------------------------------------------------------------------
(* self_test() *)

\* line 137: status != '200' aborts
https_ok_any(st) == st # << >>
https_ok(st) == st = <<"200">>

self_test ==
    /\ pc = "self_test"
    /\ stages' = Append(stages, "self_test")
    /\ UNCHANGED << args, last_headers, ns_list, host, cname, a, pub_ans, auth_ans,
                    pub, auth, a_lookups, root_ips, mode, hdr_fetches, dump >>
    /\ \E which \in BOOLEAN, o1 \in RawTestDns, o2 \in RawTestDns,
          png \in BOOLEAN, o3 \in RawStatus :
        IF ~which
        THEN \* 'dig missing'
             /\ dig_found' = "no"
             /\ out' = [out EXCEPT !["dig_missing"] = Printed(FALSE)]
             /\ exit_code' = BitOr(exit_code, print_status(FALSE))
             /\ SysExit(exit_code')
             /\ UNCHANGED << ip, ping_ok, status >>
        ELSE IF dig(o1) # << >> /\ dig(o2) = << >>
        THEN \* dig(TEST_HOST)[0] on an empty second answer: IndexError
             /\ dig_found' = "yes"
             /\ Traceback
             /\ UNCHANGED << ip, ping_ok, status, out, exit_code >>
        ELSE LET ip1 == IF dig(o1) # << >> THEN dig(o2)[1] ELSE << >>
                 ec1 == BitOr(exit_code, print_status(ip1 # << >>))
                 out1 == [out EXCEPT !["dns_resolves"] = Printed(ip1 # << >>)]
             IN  /\ dig_found' = "yes"
                 /\ ip' = ip1
                 /\ IF ip1 = << >> \/ ~png
                    THEN \* 'ping failed'
                         /\ ping_ok' = IF ip1 = << >> THEN "-" ELSE "fail"
                         /\ out' = [out1 EXCEPT !["ping"] = Printed(FALSE)]
                         /\ exit_code' = BitOr(ec1, print_status(FALSE))
                         /\ SysExit(exit_code')
                         /\ UNCHANGED status
                    ELSE /\ ping_ok' = "ok"
                         /\ status' = curl_status(o3)
                         /\ IF ~https_ok(status')
                            THEN /\ out' = [out1 EXCEPT !["ping"] = Printed(TRUE),
                                                        !["https_test"] = Printed(FALSE)]
                                 /\ exit_code' = BitOr(ec1, print_status(FALSE))
                                 /\ SysExit(exit_code')
                            ELSE /\ out' = [out1 EXCEPT !["ping"] = Printed(TRUE),
                                                        !["https_test"] = Printed(TRUE),
                                                        !["passed"] = "ok"]
                                 /\ exit_code' = ec1
                                 /\ Continue("nameserver_sanity")

----------------------------------------------------------------------------
(* nameserver_sanity() *)

nameserver_sanity ==
    /\ pc = "nameserver_sanity"
    /\ stages' = Append(stages, "nameserver_sanity")
    /\ \E o \in RawNs :
        LET ns == dig(o)
            glue == \E k \in 1..Len(ns) : EndsWithDomain(ns[k])
        IN  /\ out' = [out EXCEPT !["ns"] = IF glue THEN "warn" ELSE Printed(TRUE)]
            /\ ns_list' = ns
    /\ host' = 1
    /\ Continue("dns_audit")
    /\ UNCHANGED << args, exit_code, last_headers, dig_found, ip, ping_ok, status,
                    cname, a, pub_ans, auth_ans, pub, auth, a_lookups, root_ips,
                    mode, hdr_fetches, dump >>

----------------------------------------------------------------------------
(* dns_audit(ns_list): one action per iteration of the loop over Hosts.   *)
(* The locals of an iteration are dead once its Propagation line is       *)
(* printed; dns_audit_loop, the advance of the for statement, resets them, *)
(* and resets ns_list, which main() never reads again, when the loop ends. *)

\* sum((dig(...) or [''])[0] == first for ... in answers)
RECURSIVE SumAnswered(_, _)
SumAnswered(answers, first) ==
    IF answers = << >> THEN 0
    ELSE (IF Head(answers) # << >> THEN 1 ELSE 0) + SumAnswered(Tail(answers), first)

RECURSIVE SumMatches(_, _)
SumMatches(answers, first) ==
    IF answers = << >> THEN 0
    ELSE (IF FirstOrEmpty(Head(answers)) = first THEN 1 ELSE 0)
         + SumMatches(Tail(answers), first)

\* line 164: the A lookup is made for the verification host only
IsVerificationHost(h) == h = CNAME_1_HOST

\* lines 166-167: what the A lookup of the verification host prints
VerificationReportFail(alist) == IF alist # << >> THEN Printed(FALSE) ELSE Printed(TRUE)
VerificationReport(alist) == IF alist # << >> THEN "warn" ELSE Printed(TRUE)

dns_audit ==
    /\ pc = "dns_audit"
    /\ stages' = IF host = 1 THEN Append(stages, "dns_audit") ELSE stages
    /\ \E oc \in RawCname(Hosts[host].expected) :
        /\ cname' = dig(oc)
        /\ IF cname' = << >>
           THEN \* Missing CNAME; continue
                /\ out' = [out EXCEPT ![HostSite(host)] = Printed(FALSE)]
                /\ exit_code' = BitOr(exit_code, print_status(FALSE))
                /\ UNCHANGED << a, pub_ans, auth_ans, pub, auth, a_lookups >>
           ELSE /\ IF IsVerificationHost(Hosts[host].host)
                   THEN \E oa \in RawA :
                          /\ a' = dig(oa)
                          /\ a_lookups' = a_lookups \cup {Hosts[host].host}
                          /\ out' = [out EXCEPT ![HostSite(host)] = "info",
                                                !["verif_a"] = VerificationReport(a')]
                   ELSE /\ out' = [out EXCEPT ![HostSite(host)] = "info"]
                        /\ UNCHANGED << a, a_lookups >>
                /\ \E f \in [1..Len(RESOLVERS) -> RawResolverCname(Hosts[host].expected)],
                      g \in [1..Len(ns_list) -> RawResolverCname(Hosts[host].expected)] :
                      /\ pub_ans' = [k \in 1..Len(RESOLVERS) |-> dig(f[k])]
                      /\ auth_ans' = [k \in 1..Len(ns_list) |-> dig(g[k])]
                      /\ pub' = SumMatches(pub_ans', cname'[1])
                      /\ auth' = SumMatches(auth_ans', cname'[1])
                /\ UNCHANGED exit_code
    /\ Continue("dns_audit_loop")
    /\ UNCHANGED << args, last_headers, dig_found, ip, ping_ok, status, ns_list,
                    host, root_ips, mode, hdr_fetches, dump >>

dns_audit_loop ==
    /\ pc = "dns_audit_loop"
    /\ IF host < Len(Hosts)
       THEN /\ host' = host + 1
            /\ UNCHANGED ns_list
            /\ Continue("dns_audit")
       ELSE /\ host' = 0
            /\ ns_list' = << >>
            /\ Continue("root_a_record_check")
    /\ cname' = << >>
    /\ a' = << >>
    /\ pub_ans' = << >>
    /\ auth_ans' = << >>
    /\ pub' = 0
    /\ auth' = 0
    /\ UNCHANGED << args, exit_code, last_headers, out, stages, dig_found, ip,
                    ping_ok, status, a_lookups, root_ips, mode, hdr_fetches, dump >>

----------------------------------------------------------------------------
(* root_a_record_check() *)

RootModeAny(ips) ==
    IF \E x \in BLOGGER_IPS : x \in ips THEN "blogger"
    ELSE IF \E x \in FORWARD_IPS : x \in ips THEN "registrar"
    ELSE "invalid"

RootMode(ips) ==
    IF \A x \in BLOGGER_IPS : x \in ips THEN "blogger"
    ELSE IF \A x \in FORWARD_IPS : x \in ips THEN "registrar"
    ELSE "invalid"

root_a_record_check ==
    /\ pc = "root_a_record_check"
    /\ stages' = Append(stages, "root_a_record_check")
    /\ \E ips \in RootAnswers :
        /\ root_ips' = ips
        /\ mode' = RootMode(ips)
        /\ IF mode' = "blogger"
           THEN /\ out' = [out EXCEPT !["root"] = Printed(TRUE)]
                /\ UNCHANGED exit_code
           ELSE IF mode' = "registrar"
           THEN /\ out' = [out EXCEPT !["root_fwd"] = "warn", !["root"] = Printed(TRUE)]
                /\ UNCHANGED exit_code
           ELSE /\ out' = [out EXCEPT !["root"] = Printed(FALSE)]
                /\ exit_code' = BitOr(exit_code, print_status(FALSE))
    /\ Continue("redirect_check")
    /\ UNCHANGED << args, last_headers, dig_found, ip, ping_ok, status, ns_list,
                    host, cname, a, pub_ans, auth_ans, pub, auth, a_lookups,
                    hdr_fetches, dump >>

----------------------------------------------------------------------------
(* redirect_check(mode).  root_ips, the dead local of the previous stage,  *)
(* is reset here.                                                          *)

\* line 187: the guard of the whole body
RedirectAppliesAlways(m) == TRUE
RedirectApplies(m) == m = "blogger"

\* line 190: the first line starting with 'Location:', or << >> for none
RECURSIVE FirstLocation(_)
FirstLocation(hs) ==
    IF hs = << >> THEN << >>
    ELSE IF startswith(Head(hs), <<"Location:">>) THEN << Head(hs) >>
    ELSE FirstLocation(Tail(hs))

\* lines 189-190: the two subscripts [1] that can raise IndexError
RedirectRaises(hs) ==
    \/ hs # << >> /\ Len(split(hs[1])) < 2
    \/ FirstLocation(hs) # << >> /\ Len(split(FirstLocation(hs)[1])) < 2

\* lines 189-192, when nothing raised
RedirectOk(hs) ==
    LET st == IF hs # << >> THEN split(hs[1])[2] ELSE << >>
        location == IF FirstLocation(hs) # << >>
                    THEN split(FirstLocation(hs)[1])[2] ELSE << >>
    IN  st = <<"301">> /\ location = WwwUrl

redirect_check ==
    /\ pc = "redirect_check"
    /\ stages' = Append(stages, "redirect_check")
    /\ root_ips' = {}
    /\ IF RedirectApplies(mode)
       THEN \E o \in RawHeaders :
              /\ last_headers' = curl_headers(o)
              /\ hdr_fetches' = hdr_fetches + 1
              /\ IF RedirectRaises(last_headers')
                 THEN /\ Traceback
                      /\ UNCHANGED << out, exit_code >>
                 ELSE /\ out' = [out EXCEPT !["redirect"] = Printed(RedirectOk(last_headers'))]
                      /\ exit_code' = BitOr(exit_code, print_status(RedirectOk(last_headers')))
                      /\ Continue("https_status")
       ELSE /\ Continue("https_status")
            /\ UNCHANGED << last_headers, hdr_fetches, out, exit_code >>
    /\ UNCHANGED << args, dig_found, ip, ping_ok, status, ns_list, host, cname, a,
                    pub_ans, auth_ans, pub, auth, a_lookups, mode, dump >>

----------------------------------------------------------------------------
(* https_status() *)

https_status ==
    /\ pc = "https_status"
    /\ stages' = Append(stages, "https_status")
    /\ \E o1 \in RawStatus, o2 \in RawStatus :
        LET ok1 == curl_status(o1) = <<"200">>
            ok2 == curl_status(o2) = <<"301">>
        IN  /\ out' = [out EXCEPT !["https"] = Printed(ok1), !["http"] = Printed(ok2)]
            /\ exit_code' = BitOr(BitOr(exit_code, print_status(ok1)), print_status(ok2))
    /\ Continue("advanced")
    /\ UNCHANGED << args, last_headers, dig_found, ip, ping_ok, status, ns_list,
                    host, cname, a, pub_ans, auth_ans, pub, auth, a_lookups,
                    root_ips, mode, hdr_fetches, dump >>

----------------------------------------------------------------------------
(* advanced_diagnostics() and debug_info(), each behind its flag in main() *)

advanced_diagnostics_status ==
    /\ pc = "advanced"
    /\ args.advanced
    /\ stages' = Append(stages, "advanced_diagnostics")
    /\ \E rc \in BOOLEAN : exit_code' = BitOr(exit_code, rc)
    /\ Continue("debug")
    /\ UNCHANGED << args, last_headers, out, dig_found, ip, ping_ok, status,
                    ns_list, host, cname, a, pub_ans, auth_ans, pub, auth,
                    a_lookups, root_ips, mode, hdr_fetches, dump >>

advanced_diagnostics ==
    /\ pc = "advanced"
    /\ args.advanced
    /\ stages' = Append(stages, "advanced_diagnostics")
    \* traceroute and subfinder, when installed, write to the console only
    /\ Continue("debug")
    /\ UNCHANGED << args, exit_code, last_headers, out, dig_found, ip, ping_ok, status,
                    ns_list, host, cname, a, pub_ans, auth_ans, pub, auth,
                    a_lookups, root_ips, mode, hdr_fetches, dump >>

skip_advanced ==
    /\ pc = "advanced"
    /\ ~args.advanced
    /\ Continue("debug")
    /\ UNCHANGED << args, exit_code, last_headers, out, stages, dig_found, ip,
                    ping_ok, status, ns_list, host, cname, a, pub_ans, auth_ans,
                    pub, auth, a_lookups, root_ips, mode, hdr_fetches, dump >>

debug_info ==
    /\ pc = "debug"
    /\ args.debug
    /\ stages' = Append(stages, "debug_info")
    /\ out' = [out EXCEPT !["debug"] = "info"]
    /\ dump' = IF last_headers # << >> THEN last_headers ELSE << >>
    /\ Continue("exit")
    /\ UNCHANGED << args, exit_code, last_headers, dig_found, ip, ping_ok, status,
                    ns_list, host, cname, a, pub_ans, auth_ans, pub, auth,
                    a_lookups, root_ips, mode, hdr_fetches >>

skip_debug ==
    /\ pc = "debug"
    /\ ~args.debug
    /\ Continue("exit")
    /\ UNCHANGED << args, exit_code, last_headers, out, stages, dig_found, ip,
                    ping_ok, status, ns_list, host, cname, a, pub_ans, auth_ans,
                    pub, auth, a_lookups, root_ips, mode, hdr_fetches, dump >>

\* main(), line 227: sys.exit(exit_code)
main_exit ==
    /\ pc = "exit"
    /\ SysExit(exit_code)
    /\ UNCHANGED << args, exit_code, last_headers, out, stages, dig_found, ip,
                    ping_ok, status, ns_list, host, cname, a, pub_ans, auth_ans,
                    pub, auth, a_lookups, root_ips, mode, hdr_fetches, dump >>

----------------------------------------------------------------------------
Next ==
    \/ self_test
    \/ nameserver_sanity
    \/ dns_audit
    \/ dns_audit_loop
    \/ root_a_record_check
    \/ redirect_check
    \/ https_status
    \/ advanced_diagnostics
    \/ skip_advanced
    \/ debug_info
    \/ skip_debug
    \/ main_exit

Spec == Init /\ [][Next]_vars

----------------------------------------------------------------------------
(* Properties *)

\* Some check printed a failure line.
AnyFailure == \E s \in Sites : out[s] = "fail"

\* Some warning was printed.
AnyWarning == \E s \in Sites : out[s] = "warn"

\* C1: the accumulated exit status starts at 0 and never decreases; the
\* process ends with a nonzero status whenever a check reported a failure,
\* and with 0 whenever none did (warnings alone never make it nonzero).
C1_ExitStatusIffFailure ==
    /\ exit_code = 0
    /\ [][exit_code' >= exit_code]_vars
    /\ [](term # "running" =>
            /\ (AnyFailure => exit_status # 0)
            /\ (~AnyFailure => exit_status = 0))

\* C2: a self-test that finds dig missing, no address, a failed ping or an
\* HTTPS status other than "200" prints a failure and exits at once with a
\* nonzero status, no later stage having run; the "Self-tests passed" line
\* is printed only when every self-test check passed.
SelfTestBad ==
    \/ dig_found = "no"
    \/ dig_found = "yes" /\ term # "traceback" /\ ip = << >>
    \/ ping_ok = "fail"
    \/ ping_ok = "ok" /\ status # <<"200">>
SelfTestRaised == dig_found = "yes" /\ term = "traceback" /\ ip = << >>
C3_RootModeAsStated ==
    [][pc = "root_a_record_check" =>
          /\ mode' \in {"blogger", "registrar", "invalid"}
          /\ (BLOGGER_IPS \subseteq root_ips' => mode' = "blogger")
          /\ (FORWARD_IPS \subseteq root_ips' => mode' = "registrar")
          /\ (~(BLOGGER_IPS \subseteq root_ips') /\ ~(FORWARD_IPS \subseteq root_ips')
                => mode' = "invalid")
          /\ (mode' # "invalid" => exit_code' = exit_code)
          /\ (mode' = "invalid" => exit_code' # 0)]_vars

\* C3: root_a_record_check returns exactly one of the three modes: all four
\* platform IPs present gives platform-managed; all four forwarding IPs
\* present, and not all four platform IPs, gives registrar-forwarding; any
\* other record set gives invalid.  Only invalid prints a failure and makes
\* the exit status nonzero; the other two leave it unchanged.
C3_RootModeTotal ==
    [][pc = "root_a_record_check" =>
          /\ mode' \in {"blogger", "registrar", "invalid"}
          /\ (BLOGGER_IPS \subseteq root_ips' => mode' = "blogger")
          /\ (FORWARD_IPS \subseteq root_ips' /\ ~(BLOGGER_IPS \subseteq root_ips')
                => mode' = "registrar")
          /\ (~(BLOGGER_IPS \subseteq root_ips') /\ ~(FORWARD_IPS \subseteq root_ips')
                => mode' = "invalid")
          /\ (mode' # "invalid" => exit_code' = exit_code /\ out'["root"] = "ok")
          /\ (mode' = "invalid" => exit_code' # 0 /\ out'["root"] = "fail")]_vars

\* C3 witness: three of the four forwarding IPs and nothing else were
\* answered, and the check returned invalid with a nonzero exit status.
C3_Witness ==
    /\ pc = "redirect_check"
    /\ Cardinality(root_ips \cap FORWARD_IPS) = 3
    /\ root_ips \subseteq FORWARD_IPS
    /\ mode = "invalid"
    /\ exit_code = 1

\* C4: when the mode is registrar-forwarding or invalid, redirect_check
\* fetches no headers, prints nothing, leaves exit_code unchanged and leaves
\* last_headers empty, and debug_info then prints no header lines.
C4_RedirectSkipped ==
    [][/\ (pc = "redirect_check" /\ mode # "blogger" =>
              /\ hdr_fetches' = 0
              /\ last_headers' = << >>
              /\ exit_code' = exit_code
              /\ out' = out
              /\ pc' = "https_status")
       /\ (pc = "debug" /\ mode # "blogger" => dump' = << >> /\ last_headers' = << >>)]_vars

\* C4 witness: a run in registrar-forwarding mode went through
\* redirect_check and debug_info and ended with nothing dumped.
C4_Witness ==
    /\ pc = "done"
    /\ mode = "registrar"
    /\ \E k \in 1..Len(stages) : stages[k] = "redirect_check"
    /\ \E k \in 1..Len(stages) : stages[k] = "debug_info"
    /\ hdr_fetches = 0
    /\ dump = << >>

\* The status code of a response: the second word of its status line.
ClaimedStatusCode(hs) ==
    IF hs # << >> /\ Len(split(hs[1])) >= 2 THEN split(hs[1])[2] ELSE << >>

\* The values of the Location headers of a response.
ClaimedLocations(hs) ==
    { strip(SubSeq(hs[k], 2, Len(hs[k]))) :
        k \in { j \in 1..Len(hs) : startswith(hs[j], <<"Location:">>) } }

\* C5: in platform-managed mode, whatever header lines the fetch returns,
\* they are retained in last_headers, and redirect_check prints success
\* exactly when the status code is 301 and the Location value is
\* https://www.<custom-domain>/ ; every other response is printed as a
\* failure and makes exit_code nonzero.
C5_RedirectIffExact ==
    hdr_fetches > 0 =>
        LET good == /\ ClaimedStatusCode(last_headers) = <<"301">>
                    /\ ClaimedLocations(last_headers) = {WwwUrl}
        IN  /\ mode = "blogger"
            /\ (good => out["redirect"] = "ok")
            /\ (~good => out["redirect"] = "fail" /\ exit_code # 0)

\* C6: once the self-test has passed, the run goes through
\* nameserver_sanity, dns_audit, root_a_record_check, redirect_check and
\* https_status, then the requested optional stages, in that order, and
\* ends in sys.exit(exit_code); no stage after the self-test ends the run.
FullRun ==
    <<"self_test", "nameserver_sanity", "dns_audit", "root_a_record_check",
      "redirect_check", "https_status">>
      \o (IF args.advanced THEN <<"advanced_diagnostics">> ELSE << >>)
      \o (IF args.debug THEN <<"debug_info">> ELSE << >>)
C6_RunsToCompletion ==
    out["passed"] = "ok" =>
        /\ Len(stages) <= Len(FullRun)
        /\ stages = SubSeq(FullRun, 1, Len(stages))
        /\ (pc = "done" =>
              /\ term = "exit"
              /\ stages = FullRun
              /\ exit_status = exit_code)

\* C7: for the verification host with a CNAME present, an empty A answer is
\* printed as success and a non-empty one as a warning, and exit_code is
\* unchanged either way; no other iteration makes an A lookup or prints
\* that line.
C7_VerificationHost ==
    [][pc = "dns_audit" =>
          IF Hosts[host].host = CNAME_1_HOST /\ cname' # << >>
          THEN /\ out'["verif_a"] = (IF a' = << >> THEN "ok" ELSE "warn")
               /\ exit_code' = exit_code
               /\ a_lookups' = a_lookups \cup {CNAME_1_HOST}
          ELSE /\ a_lookups' = a_lookups
               /\ a' = a
               /\ out'["verif_a"] = out["verif_a"]]_vars

\* C7 witness: the verification host has a CNAME and an A record; the
\* warning was printed and exit_code is still 0.
C7_Witness ==
    /\ pc = "dns_audit_loop"
    /\ host = Len(Hosts)
    /\ cname # << >>
    /\ a # << >>
    /\ out["verif_a"] = "warn"
    /\ a_lookups = {CNAME_1_HOST}
    /\ exit_code = 0

\* C8: for a host whose local CNAME answer is non-empty, pub is the number
\* of public resolvers, and auth the number of nameservers of ns_list,
\* that gave an answer whose first line is the local first line; each lies
\* between 0 and the size of its group, and the local first line is never
\* the empty string.
MatchCount(answers, first) ==
    Cardinality({ k \in DOMAIN answers : answers[k] # << >> /\ answers[k][1] = first })
C8_PropagationCounts ==
    pc = "dns_audit_loop" /\ cname # << >> =>
        /\ cname[1] # << >>
        /\ DOMAIN pub_ans = 1..Len(RESOLVERS)
        /\ DOMAIN auth_ans = 1..Len(ns_list)
        /\ pub = MatchCount(pub_ans, cname[1])
        /\ auth = MatchCount(auth_ans, cname[1])
        /\ pub \in 0..Len(RESOLVERS)
        /\ auth \in 0..Len(ns_list)

\* C8 witness: two of the three public resolvers match, the third gave no
\* answer, and one of two nameservers matches while the other answers
\* something else.
C8_Witness ==
    /\ pc = "dns_audit_loop"
    /\ cname # << >>
    /\ pub = 2
    /\ \E k \in DOMAIN pub_ans : pub_ans[k] = << >>
    /\ Len(ns_list) = 2
    /\ auth = 1
    /\ \E k \in DOMAIN auth_ans : auth_ans[k] # << >> /\ auth_ans[k][1] # cname[1]

\* C9: advanced_diagnostics and debug_info, run or skipped, change neither
\* exit_code nor last_headers nor any check's printed result, never end the
\* run, and the process then exits with exactly that exit_code: the flags
\* do not alter the outcome.
CheckSites == Sites \ {"debug"}
C9_FlagsDoNotAlterOutcome ==
    [][/\ (pc \in {"advanced", "debug"} =>
              /\ exit_code' = exit_code
              /\ last_headers' = last_headers
              /\ \A s \in CheckSites : out'[s] = out[s]
              /\ term' = "running")
       /\ (pc = "exit" =>
              /\ term' = "exit"
              /\ exit_status' = exit_code
              /\ \A s \in CheckSites : out'[s] = out[s])]_vars

\* C9 witness: a run with both flags set ran both optional stages after a
\* failed redirect check and exited with status 1, the headers still held.
C9_Witness ==
    /\ pc = "done"
    /\ args.advanced /\ args.debug
    /\ stages = FullRun
    /\ out["redirect"] = "fail"
    /\ last_headers # << >>
    /\ dump = last_headers
    /\ exit_status = 1

\* C10: a host whose CNAME is present but is not its configured expected
\* target gets a failure or a warning from the audit.
C10_TargetValidated ==
    pc = "dns_audit_loop" /\ cname # << >> /\ cname[1] # Hosts[host].expected =>
        out[HostSite(host)] \in {"fail", "warn"}

====
